---------------------------- MODULE Spec2Model ----------------------------
(***************************************************************************)
(* Model of the articleDetector pipeline: the rule-based classifier        *)
(* (classifier.py), the structural and lexical analyser (text_analyzer.py),*)
(* the compliance validator (compliance_validator.py), the ingestion       *)
(* (segmentation.py), the pipeline of one document (main.py) and the batch *)
(* loop (process_files.py).                                                *)
(*                                                                         *)
(* A text is a sequence of one-character strings.  Scores are kept in      *)
(* thousandths (0.015 is 15, 0.3 is 300, 1.0 is 1000), which is exact for  *)
(* every weight and cap of the scorer.                                     *)
(***************************************************************************)
EXTENDS Integers, Sequences, FiniteSets, TLC

VARIABLES
    pc,               \* the step the component under analysis has reached
    analysis,         \* ComplianceValidator.check_compliance: its argument
    compliance,       \* ComplianceValidator.check_compliance: its result
    features,         \* calculate_confidence_score: its argument
    confidence,       \* calculate_confidence_score: its result
    text,             \* the extracted text handed to the analyser
    paragraphs,       \* TextAnalyzer.detect_paragraphs: its result
    body_text,        \* TextAnalyzer.extract_body_text: its result
    resegmented,      \* detect_paragraphs applied to body_text
    words,            \* TextAnalyzer.tokenize_words: its result
    stop_words,       \* TextAnalyzer.stop_words, built by __init__
    top_n,            \* calculate_word_frequency: its argument top_n
    remove_stop_words,\* calculate_word_frequency: its argument remove_stop_words
    top_words,        \* calculate_word_frequency: its result
    classification,   \* ScientificArticleClassifier.classify: its result
    analysis_result,  \* TextAnalyzer.analyze_text: its result
    document,         \* process_document: the file behind file_path
    results,          \* process_document: its dictionary results
    stages,           \* process_document: the stages executed so far, in order
    exception,        \* process_document: the exception in flight in its try block
    documents,        \* process_batch: its argument documents
    save_json,        \* process_batch: its argument save_json
    idx,              \* process_batch: the number of documents dealt with
    success,          \* process_batch: its counter success
    compliant,        \* process_batch: its counter compliant
    non_compliant,    \* process_batch: its counter non_compliant
    errors,           \* process_batch: its counter errors
    results_summary,  \* process_batch: the list results_summary['results']
    attempted,        \* process_batch: the documents handed to process_document
    summary_printed   \* process_batch: the final summary has been printed

complianceVars == <<analysis, compliance>>
scoreVars == <<features, confidence>>
segVars == <<paragraphs, body_text, resegmented>>
tokVars == <<words>>
freqVars == <<stop_words, top_n, remove_stop_words, top_words>>

classVars == <<classification>>

analyzeVars == <<analysis_result>>
pipeVars == <<document, results, stages, exception>>
counterVars == <<success, compliant, non_compliant, errors>>
batchVars == <<documents, save_json, idx, counterVars, results_summary,
               attempted, summary_printed>>
laterVars == <<analyzeVars, pipeVars, batchVars>>

vars == <<pc, complianceVars, scoreVars, text, segVars, tokVars, freqVars,
          classVars, laterVars>>

(***************************************************************************)
(* Bounds of the model.                                                    *)
(***************************************************************************)
WordMargin == 4        \* word counts within this distance of min_words
ParaMargin == 4        \* paragraph counts up to min_paragraphs + this
MaxKeywordCount == 24  \* keyword_count drawn from 0..MaxKeywordCount
MaxCitationCount == 18 \* citation_count drawn from 0..MaxCitationCount
MaxSegPieces == 6      \* a text to segment is made of at most this many pieces
MaxTokLen == 4         \* a text to tokenize has at most this many characters
MaxFreqWords == 4      \* a text to rank has at most this many words
MaxFragments == 3      \* a text to classify holds at most this many fragments
PadLen == 2            \* white space put on both sides of a text to classify

MaxAnalyzePieces == 5  \* a text to analyse is made of at most this many pieces
MaxFeaturePieces == 4  \* an identifier text is made of at most this many pieces
MaxFillerLines == 8    \* a document's text holds none or this many filler lines
MaxBatch == 3          \* a batch holds at most this many documents
Min(a, b) == IF a <= b THEN a ELSE b
Max(a, b) == IF a >= b THEN a ELSE b

(***************************************************************************)
(* Characters and strings (Python str, re)                                 *)
(***************************************************************************)
\* str.isspace / the class \s of re
Whitespace == {" ", "\t", "\n", "\r", "\f"}

\* The letters a-z and A-Z
LowerAZ ==
    {"a", "b", "c", "d", "e", "f", "g", "h", "i", "j", "k", "l", "m",
     "n", "o", "p", "q", "r", "s", "t", "u", "v", "w", "x", "y", "z"}
UpperAZ ==
    {"A", "B", "C", "D", "E", "F", "G", "H", "I", "J", "K", "L", "M",
     "N", "O", "P", "Q", "R", "S", "T", "U", "V", "W", "X", "Y", "Z"}
\* The accented letters of the token pattern, in both cases
AccentedLower ==
    {"á", "é", "í", "ó", "ú", "à", "è", "ì", "ò", "ù", "â", "ê", "î",
     "ô", "û", "ã", "õ", "ç"}
AccentedUpper ==
    {"Á", "É", "Í", "Ó", "Ú", "À", "È", "Ì", "Ò", "Ù", "Â", "Ê", "Î",
     "Ô", "Û", "Ã", "Õ", "Ç"}
\* Letters that are word characters for re but are outside the token pattern
OtherLetters == {"ñ", "ü"}
Digits == {"0", "1", "2", "3", "4", "5", "6", "7", "8", "9"}
\* The class \w of re: letters, digits and the underscore
WordChars ==
    LowerAZ \cup UpperAZ \cup AccentedLower \cup AccentedUpper
    \cup OtherLetters \cup Digits \cup {"_"}

UpperSeq ==
    <<"A", "B", "C", "D", "E", "F", "G", "H", "I", "J", "K", "L", "M",
      "N", "O", "P", "Q", "R", "S", "T", "U", "V", "W", "X", "Y", "Z",
      "Á", "É", "Í", "Ó", "Ú", "À", "È", "Ì", "Ò", "Ù", "Â", "Ê", "Î",
      "Ô", "Û", "Ã", "Õ", "Ç">>
LowerSeq ==
    <<"a", "b", "c", "d", "e", "f", "g", "h", "i", "j", "k", "l", "m",
      "n", "o", "p", "q", "r", "s", "t", "u", "v", "w", "x", "y", "z",
      "á", "é", "í", "ó", "ú", "à", "è", "ì", "ò", "ù", "â", "ê", "î",
      "ô", "û", "ã", "õ", "ç">>

\* str.lower() on one character
lower_char(c) ==
    IF \E i \in 1..Len(UpperSeq) : UpperSeq[i] = c
    THEN LowerSeq[CHOOSE i \in 1..Len(UpperSeq) : UpperSeq[i] = c]
    ELSE c

\* str.lower()
lower(s) == [i \in 1..Len(s) |-> lower_char(s[i])]

RECURSIVE Flatten(_)
\* The concatenation of a sequence of strings.
Flatten(ss) == IF ss = <<>> THEN <<>> ELSE Head(ss) \o Flatten(Tail(ss))

RECURSIVE RunEnd(_, _, _)
\* The first index >= i of s whose character is outside class (Len(s)+1 if none).
RunEnd(s, i, class) ==
    IF i > Len(s) \/ s[i] \notin class THEN i ELSE RunEnd(s, i + 1, class)

RECURSIVE RunEndNot(_, _, _)
\* The first index >= i of s whose character is inside class (Len(s)+1 if none).
RunEndNot(s, i, class) ==
    IF i > Len(s) \/ s[i] \in class THEN i ELSE RunEndNot(s, i + 1, class)

RECURSIVE RunStartBack(_, _, _)
\* The last index <= i of s whose character is outside class (0 if none).
RunStartBack(s, i, class) ==
    IF i < 1 \/ s[i] \notin class THEN i ELSE RunStartBack(s, i - 1, class)

\* str.strip()
strip(s) ==
    LET first == RunEnd(s, 1, Whitespace)
        last == RunStartBack(s, Len(s), Whitespace)
    IN  IF first > last THEN <<>> ELSE SubSeq(s, first, last)

RECURSIVE SplitFrom(_, _)
\* str.split() from index i: the maximal runs of non-whitespace characters.
SplitFrom(s, i) ==
    LET b == RunEnd(s, i, Whitespace)
        e == RunEndNot(s, b, Whitespace)
    IN  IF b > Len(s) THEN <<>> ELSE <<SubSeq(s, b, e - 1)>> \o SplitFrom(s, e)

split(s) == SplitFrom(s, 1)

RECURSIVE join(_, _)
\* sep.join(parts)
join(sep, parts) ==
    IF parts = <<>> THEN <<>>
    ELSE IF Len(parts) = 1 THEN parts[1]
    ELSE parts[1] \o sep \o join(sep, Tail(parts))

(***************************************************************************)
(* text_analyzer.py: the paragraph segmenter                               *)
(***************************************************************************)
MinParagraphWords == 3

\* Mutant: the separator pattern taken as \n+, so that one newline splits.
SingleNewlineEnd(s, i) ==
    IF i > Len(s) \/ s[i] # "\n" THEN 0
    ELSE RunEnd(s, i, {"\n"}) - 1

\* re: the end of the match of \n\s*\n+ that starts at index i, 0 if there is
\* none.  The greedy \s* takes the whole whitespace run after the newline and
\* backtracks to the last newline of that run, which \n+ then matches.
BlankLineEnd(s, i) ==
    IF i > Len(s) \/ s[i] # "\n" THEN 0
    ELSE LET j == RunEnd(s, i + 1, Whitespace)
             nl == {k \in (i + 1)..(j - 1) : s[k] = "\n"}
         IN  IF nl = {} THEN 0 ELSE CHOOSE k \in nl : \A m \in nl : m <= k

RECURSIVE re_split(_, _, _)
\* re.split(r'\n\s*\n+', s): the pieces between the successive leftmost
\* matches; i is the scan position, start the beginning of the current piece.
\* The scan goes to the first index >= i where the pattern matches and resumes
\* after that match.
re_split(s, i, start) ==
    LET seps == {j \in i..Len(s) : BlankLineEnd(s, j) > 0}
    IN  IF seps = {} THEN <<SubSeq(s, start, Len(s))>>
        ELSE LET j == CHOOSE x \in seps : \A y \in seps : x <= y
                 e == BlankLineEnd(s, j)
             IN  <<SubSeq(s, start, j - 1)>> \o re_split(s, e + 1, e + 1)

RECURSIVE CleanParagraphs(_)
\* The loop of detect_paragraphs over the candidate blocks.
CleanParagraphs(blocks) ==
    IF blocks = <<>> THEN <<>>
    ELSE LET para == strip(join(<<" ">>, split(Head(blocks))))
         IN  (IF Len(split(para)) >= MinParagraphWords THEN <<para>> ELSE <<>>)
             \o CleanParagraphs(Tail(blocks))

detect_paragraphs(t) ==
    IF t = <<>> THEN <<>>
    ELSE CleanParagraphs(re_split(strip(t), 1, 1))

count_paragraphs(ps) == Len(ps)

\* Mutant: the paragraphs joined by a single newline.
extract_body_text_single(ps) == join(<<"\n">>, ps)

extract_body_text(ps) == join(<<"\n", "\n">>, ps)

(***************************************************************************)
(* text_analyzer.py: the tokenizer and the frequency analyser              *)
(***************************************************************************)
\* The character class of the token pattern
TokenLetters == LowerAZ \cup UpperAZ \cup AccentedLower \cup AccentedUpper

\* Mutant: the token pattern without its word boundaries.
WordMatchEndUnbounded(s, i) ==
    IF i <= Len(s) /\ s[i] \in TokenLetters
    THEN RunEnd(s, i, TokenLetters) ELSE 0

\* re: the index after the match of \b[letters]+\b that starts at index i, 0 if
\* there is none.  \b holds between a word character and a non-word character
\* (or an end of the string); the greedy run cannot be shortened to reach a
\* boundary, as both sides of any cut inside it are letters.
WordMatchEnd(s, i) ==
    IF /\ i <= Len(s) /\ s[i] \in TokenLetters
       /\ (i = 1 \/ s[i - 1] \notin WordChars)
    THEN LET e == RunEnd(s, i, TokenLetters)
         IN  IF e > Len(s) \/ s[e] \notin WordChars THEN e ELSE 0
    ELSE 0

RECURSIVE findall_words(_, _)
\* re.findall of the token pattern from index i, leftmost matches first: the
\* scan goes to the first index >= i where the pattern matches and resumes
\* after that match.
findall_words(s, i) ==
    LET starts == {j \in i..Len(s) : WordMatchEnd(s, j) > 0}
    IN  IF starts = {} THEN <<>>
        ELSE LET j == CHOOSE x \in starts : \A y \in starts : x <= y
                 e == WordMatchEnd(s, j)
             IN  <<SubSeq(s, j, e - 1)>> \o findall_words(s, e)

count_words(t) == IF t = <<>> THEN 0 ELSE Len(findall_words(lower(t), 1))

tokenize_words(t) == IF t = <<>> THEN <<>> ELSE findall_words(lower(t), 1)

\* The words added to the stop-word set in TextAnalyzer.__init__
SupplementaryStopWords ==
    {<<"e", "t">>, <<"a", "l">>, <<"f", "i", "g">>,
     <<"f", "i", "g", "u", "r", "e">>, <<"t", "a", "b", "l", "e">>,
     <<"d", "o", "i">>, <<"h", "t", "t", "p">>, <<"h", "t", "t", "p", "s">>,
     <<"w", "w", "w">>, <<"c", "o", "m">>, <<"o", "r", "g">>, <<"e", "d", "u">>,
     <<"v", "o", "l">>, <<"p", "p">>, <<"e", "d", "s">>, <<"e", "d">>}

\* Entries of the Portuguese and English lists of the stop-word corpus
CorpusStopWords ==
    {<<"d", "e">>, <<"q", "u", "e">>, <<"p", "a", "r", "a">>,
     <<"t", "h", "e">>, <<"a", "n", "d">>, <<"o", "f">>}

\* The stop-word sets TextAnalyzer.__init__ can build: the corpus lists with
\* the supplementary words, or the supplementary words alone when the corpus
\* cannot be loaded.
StopWordSets ==
    {CorpusStopWords \cup SupplementaryStopWords, SupplementaryStopWords}

\* Mutant: words of two letters are kept.
remove_stopwords_two(sw, ws) ==
    SelectSeq(ws, LAMBDA w : w \notin sw /\ Len(w) >= 2)

remove_stopwords(sw, ws) ==
    SelectSeq(ws, LAMBDA w : w \notin sw /\ Len(w) > 2)

RECURSIVE Counter(_, _)
\* collections.Counter(ws): the (word, count) items in insertion order, which
\* is the order of first appearance; acc is the items counted so far.
Counter(ws, acc) ==
    IF ws = <<>> THEN acc
    ELSE LET w == Head(ws)
             at == {i \in 1..Len(acc) : acc[i][1] = w}
         IN  IF at = {}
             THEN Counter(Tail(ws), Append(acc, <<w, 1>>))
             ELSE LET i == CHOOSE k \in at : TRUE
                  IN  Counter(Tail(ws), [acc EXCEPT ![i] = <<w, acc[i][2] + 1>>])

\* Mutant: an item goes before the items of equal count (ties in reverse order).
InsertByCountBefore(item, sorted) ==
    LET before == {i \in 1..Len(sorted) : sorted[i][2] > item[2]}
        k == Cardinality(before)
    IN  SubSeq(sorted, 1, k) \o <<item>> \o SubSeq(sorted, k + 1, Len(sorted))

\* One step of the stable descending sort: item goes after every item whose
\* count is at least its own.
InsertByCount(item, sorted) ==
    LET before == {i \in 1..Len(sorted) : sorted[i][2] >= item[2]}
        k == Cardinality(before)
    IN  SubSeq(sorted, 1, k) \o <<item>> \o SubSeq(sorted, k + 1, Len(sorted))

RECURSIVE SortedByCount(_, _)
\* sorted(items, key=count, reverse=True): stable, so items of equal count
\* keep their insertion order.
SortedByCount(items, sorted) ==
    IF items = <<>> THEN sorted
    ELSE SortedByCount(Tail(items), InsertByCount(Head(items), sorted))

\* Counter.most_common(n) = heapq.nlargest(n, items, key=count), which returns
\* what sorted(items, key=count, reverse=True)[:n] returns.
most_common(items, n) ==
    SubSeq(SortedByCount(items, <<>>), 1, Min(Max(n, 0), Len(items)))

DefaultTopN == 10

calculate_word_frequency(sw, t, n, remove) ==
    IF t = <<>> THEN <<>>
    ELSE LET ws == tokenize_words(t)
             kept == IF remove THEN remove_stopwords(sw, ws) ELSE ws
         IN  most_common(Counter(kept, <<>>), n)

\* analyze_text with the words counted in the raw text
analyze_text_raw(sw, t) ==
    LET ps == detect_paragraphs(t)
        body == extract_body_text(ps)
    IN  [paragraphs |-> ps, paragraph_count |-> count_paragraphs(ps),
         body_text |-> body, word_count |-> count_words(t),
         top_words |-> calculate_word_frequency(sw, body, DefaultTopN, TRUE)]

\* TextAnalyzer.analyze_text; sw is self.stop_words
analyze_text(sw, t) ==
    LET ps == detect_paragraphs(t)
        body == extract_body_text(ps)
    IN  [paragraphs |-> ps, paragraph_count |-> count_paragraphs(ps),
         body_text |-> body, word_count |-> count_words(body),
         top_words |-> calculate_word_frequency(sw, body, DefaultTopN, TRUE)]

(***************************************************************************)
(* compliance_validator.py                                                 *)
(***************************************************************************)
min_words == 2000
min_paragraphs == 5

Requirements == [min_words |-> min_words, min_paragraphs |-> min_paragraphs]

\* f"Palavras: {word_count} (mínimo: {self.min_words})"
WordReason(word_count) ==
    [label |-> "Palavras", count |-> word_count, minimum |-> min_words]

\* f"Parágrafos: {paragraph_count} (mínimo: {self.min_paragraphs})"
ParagraphReason(paragraph_count) ==
    [label |-> "Parágrafos", count |-> paragraph_count, minimum |-> min_paragraphs]

NoCompliance ==
    [is_compliant |-> FALSE, word_count |-> 0, paragraph_count |-> 0,
     requirements |-> Requirements, reasons |-> <<>>]

\* Mutant: the thresholds taken as inclusive.
check_compliance_inclusive(a) ==
    LET word_count == a.word_count
        paragraph_count == a.paragraph_count
        is_compliant == word_count >= min_words /\ paragraph_count >= min_paragraphs
        r1 == IF word_count < min_words THEN <<WordReason(word_count)>> ELSE <<>>
        r2 == IF paragraph_count < min_paragraphs
              THEN <<ParagraphReason(paragraph_count)>> ELSE <<>>
    IN  [is_compliant |-> is_compliant, word_count |-> word_count,
         paragraph_count |-> paragraph_count, requirements |-> Requirements,
         reasons |-> IF ~is_compliant THEN r1 \o r2 ELSE <<>>]

\* Mutant: the paragraph reason appended before the word reason.
check_compliance_swapped(a) ==
    LET word_count == a.word_count
        paragraph_count == a.paragraph_count
        is_compliant == word_count > min_words /\ paragraph_count > min_paragraphs
        r1 == IF word_count <= min_words THEN <<WordReason(word_count)>> ELSE <<>>
        r2 == IF paragraph_count <= min_paragraphs
              THEN <<ParagraphReason(paragraph_count)>> ELSE <<>>
    IN  [is_compliant |-> is_compliant, word_count |-> word_count,
         paragraph_count |-> paragraph_count, requirements |-> Requirements,
         reasons |-> IF ~is_compliant THEN r2 \o r1 ELSE <<>>]

check_compliance(a) ==
    LET word_count == a.word_count
        paragraph_count == a.paragraph_count
        is_compliant == word_count > min_words /\ paragraph_count > min_paragraphs
        r1 == IF word_count <= min_words THEN <<WordReason(word_count)>> ELSE <<>>
        r2 == IF paragraph_count <= min_paragraphs
              THEN <<ParagraphReason(paragraph_count)>> ELSE <<>>
    IN  [is_compliant |-> is_compliant, word_count |-> word_count,
         paragraph_count |-> paragraph_count, requirements |-> Requirements,
         reasons |-> IF ~is_compliant THEN r1 \o r2 ELSE <<>>]

(***************************************************************************)
(* classifier.py: the confidence scorer                                    *)
(***************************************************************************)
KeywordWeight == 15
KeywordCap == 300
CitationWeight == 20
CitationCap == 300
DoiBonus == 100
IssnBonus == 100
SectionWeight == 40
SectionCap == 200
ScoreMax == 1000
Threshold == 300
NumSections == 6

NoFeatures ==
    [keyword_count |-> 0, citation_count |-> 0, has_doi |-> FALSE,
     has_issn |-> FALSE, section_count |-> 0]

\* The sum of the five contributions, before the final min(score, 1.0).
ScoreSum(f) ==
      Min(f.keyword_count * KeywordWeight, KeywordCap)
    + Min(f.citation_count * CitationWeight, CitationCap)
    + (IF f.has_doi THEN DoiBonus ELSE 0)
    + (IF f.has_issn THEN IssnBonus ELSE 0)
    + Min(f.section_count * SectionWeight, SectionCap)

\* Mutant: the keyword contribution is not capped.
calculate_confidence_score_uncapped(f) ==
    Min(  f.keyword_count * KeywordWeight
        + Min(f.citation_count * CitationWeight, CitationCap)
        + (IF f.has_doi THEN DoiBonus ELSE 0)
        + (IF f.has_issn THEN IssnBonus ELSE 0)
        + Min(f.section_count * SectionWeight, SectionCap), ScoreMax)

calculate_confidence_score(f) == Min(ScoreSum(f), ScoreMax)

(***************************************************************************)
(* classifier.py: the feature extractor and the classifier                 *)
(***************************************************************************)
scientific_keywords ==
    <<<<"a", "b", "s", "t", "r", "a", "c", "t">>,
      <<"r", "e", "s", "u", "m", "o">>,
      <<"i", "n", "t", "r", "o", "d", "u", "c", "t", "i", "o", "n">>,
      <<"i", "n", "t", "r", "o", "d", "u", "ç", "ã", "o">>,
      <<"m", "e", "t", "h", "o", "d", "o", "l", "o", "g", "y">>,
      <<"m", "e", "t", "o", "d", "o", "l", "o", "g", "i", "a">>,
      <<"r", "e", "s", "u", "l", "t", "s">>,
      <<"r", "e", "s", "u", "l", "t", "a", "d", "o", "s">>,
      <<"d", "i", "s", "c", "u", "s", "s", "i", "o", "n">>,
      <<"d", "i", "s", "c", "u", "s", "s", "ã", "o">>,
      <<"c", "o", "n", "c", "l", "u", "s", "i", "o", "n">>,
      <<"c", "o", "n", "c", "l", "u", "s", "ã", "o">>,
      <<"r", "e", "f", "e", "r", "e", "n", "c", "e", "s">>,
      <<"r", "e", "f", "e", "r", "ê", "n", "c", "i", "a", "s">>,
      <<"b", "i", "b", "l", "i", "o", "g", "r", "a", "f", "i", "a">>,
      <<"h", "y", "p", "o", "t", "h", "e", "s", "i", "s">>,
      <<"h", "i", "p", "ó", "t", "e", "s", "e">>,
      <<"e", "x", "p", "e", "r", "i", "m", "e", "n", "t">>,
      <<"e", "x", "p", "e", "r", "i", "m", "e", "n", "t", "o">>,
      <<"a", "n", "a", "l", "y", "s", "i", "s">>,
      <<"a", "n", "á", "l", "i", "s", "e">>, <<"s", "t", "u", "d", "y">>,
      <<"e", "s", "t", "u", "d", "o">>,
      <<"r", "e", "s", "e", "a", "r", "c", "h">>,
      <<"p", "e", "s", "q", "u", "i", "s", "a">>,
      <<"m", "e", "t", "h", "o", "d">>, <<"m", "é", "t", "o", "d", "o">>,
      <<"e", "t", " ", "a", "l">>, <<"f", "i", "g", "u", "r", "e">>,
      <<"f", "i", "g", "u", "r", "a">>, <<"t", "a", "b", "l", "e">>,
      <<"t", "a", "b", "e", "l", "a">>, <<"d", "o", "i">>,
      <<"i", "s", "s", "n">>, <<"j", "o", "u", "r", "n", "a", "l">>,
      <<"r", "e", "v", "i", "s", "t", "a">>>>

sections ==
    <<<<"a", "b", "s", "t", "r", "a", "c", "t">>,
      <<"i", "n", "t", "r", "o", "d", "u", "c", "t", "i", "o", "n">>,
      <<"m", "e", "t", "h", "o", "d">>, <<"r", "e", "s", "u", "l", "t">>,
      <<"c", "o", "n", "c", "l", "u", "s", "i", "o", "n">>,
      <<"r", "e", "f", "e", "r", "e", "n", "c", "e">>>>

\* s[i], or the empty string when i is no index of s
At(s, i) == IF i \in 1..Len(s) THEN s[i] ELSE ""

\* s holds the string w from index i on
StartsAt(s, i, w) == \A j \in 1..Len(w) : At(s, i + j - 1) = w[j]

\* w in s
Contains(s, w) == \E i \in 1..(Len(s) - Len(w) + 1) : StartsAt(s, i, w)

\* s holds \d{n} from index i on
DigitsAt(s, i, n) == \A j \in 0..(n - 1) : At(s, i + j) \in Digits

\* re: the index after the match of \([A-Z][a-z]+,?\s+\d{4}\) at index i, else 0
AuthorYearEnd(s, i) ==
    IF At(s, i) = "(" /\ At(s, i + 1) \in UpperAZ /\ At(s, i + 2) \in LowerAZ
    THEN LET e1 == RunEnd(s, i + 2, LowerAZ)
             e2 == IF At(s, e1) = "," THEN e1 + 1 ELSE e1
             e3 == RunEnd(s, e2, Whitespace)
         IN  IF e3 > e2 /\ DigitsAt(s, e3, 4) /\ At(s, e3 + 4) = ")"
             THEN e3 + 5 ELSE 0
    ELSE 0

\* re: the index after the match of \[[0-9,\s-]+\] at index i, else 0
BracketListEnd(s, i) ==
    IF At(s, i) = "["
    THEN LET e == RunEnd(s, i + 1, Digits \cup Whitespace \cup {",", "-"})
         IN  IF e > i + 1 /\ At(s, e) = "]" THEN e + 1 ELSE 0
    ELSE 0

\* re: the index after the match of et\s+al\.?,?\s+\d{4} at index i, else 0
EtAlEnd(s, i) ==
    IF StartsAt(s, i, <<"e", "t">>)
    THEN LET e1 == RunEnd(s, i + 2, Whitespace)
             e2 == e1 + 2
             e3 == IF At(s, e2) = "." THEN e2 + 1 ELSE e2
             e4 == IF At(s, e3) = "," THEN e3 + 1 ELSE e3
             e5 == RunEnd(s, e4, Whitespace)
         IN  IF /\ e1 > i + 2 /\ StartsAt(s, e1, <<"a", "l">>)
                /\ e5 > e4 /\ DigitsAt(s, e5, 4)
             THEN e5 + 4 ELSE 0
    ELSE 0

\* self.citation_patterns, by position in the list
citation_patterns == 1..3

CitationEnd(k, s, i) ==
    CASE k = 1 -> AuthorYearEnd(s, i)
      [] k = 2 -> BracketListEnd(s, i)
      [] OTHER -> EtAlEnd(s, i)

RECURSIVE CountMatches(_, _, _)
\* len(re.findall(pattern k, s)) from index i: leftmost, non-overlapping.  The
\* scan goes to the first index >= i where the pattern matches and resumes
\* after that match.
CountMatches(k, s, i) ==
    LET starts == {j \in i..Len(s) : CitationEnd(k, s, j) > 0}
    IN  IF starts = {} THEN 0
        ELSE LET j == CHOOSE x \in starts : \A y \in starts : x <= y
             IN  1 + CountMatches(k, s, CitationEnd(k, s, j))

RECURSIVE SumOver(_, _)
SumOver(f, S) ==
    IF S = {} THEN 0
    ELSE LET x == CHOOSE y \in S : TRUE IN f[x] + SumOver(f, S \ {x})

\* Mutant: white space required between "doi:" and the number.
DoiAtSpaced(s, i) ==
    /\ StartsAt(s, i, <<"d", "o", "i", ":">>)
    /\ LET e == RunEnd(s, i + 4, Whitespace)
       IN  e > i + 4 /\ StartsAt(s, e, <<"1", "0", ".">>) /\ At(s, e + 3) \in Digits

\* re.search(r'doi:\s*10\.\d+', s)
DoiAt(s, i) ==
    /\ StartsAt(s, i, <<"d", "o", "i", ":">>)
    /\ LET e == RunEnd(s, i + 4, Whitespace)
       IN  StartsAt(s, e, <<"1", "0", ".">>) /\ At(s, e + 3) \in Digits

\* Mutant: no colon or white space required between "issn" and the number.
IssnAtUnseparated(s, i) ==
    /\ StartsAt(s, i, <<"i", "s", "s", "n">>)
    /\ LET e == RunEnd(s, i + 4, Whitespace \cup {":"})
           h == IF At(s, e + 4) = "-" THEN e + 5 ELSE e + 4
       IN  /\ DigitsAt(s, e, 4) /\ DigitsAt(s, h, 3)
           /\ At(s, h + 3) \in Digits \cup {"x", "X"}

\* re.search(r'issn[:\s]+\d{4}-?\d{3}[\dxX]', s)
IssnAt(s, i) ==
    /\ StartsAt(s, i, <<"i", "s", "s", "n">>)
    /\ LET e == RunEnd(s, i + 4, Whitespace \cup {":"})
           h == IF At(s, e + 4) = "-" THEN e + 5 ELSE e + 4
       IN  /\ e > i + 4
           /\ DigitsAt(s, e, 4) /\ DigitsAt(s, h, 3)
           /\ At(s, h + 3) \in Digits \cup {"x", "X"}

extract_features(t) ==
    LET text_lower == lower(t)
    IN  [keyword_count |->
             Cardinality({k \in 1..Len(scientific_keywords) :
                              Contains(text_lower, scientific_keywords[k])}),
         citation_count |->
             SumOver([k \in citation_patterns |-> CountMatches(k, t, 1)],
                     citation_patterns),
         has_doi |-> \E i \in 1..Len(text_lower) : DoiAt(text_lower, i),
         has_issn |-> \E i \in 1..Len(text_lower) : IssnAt(text_lower, i),
         section_count |->
             Cardinality({k \in 1..Len(sections) :
                              Contains(text_lower, sections[k])})]

MinTextLen == 100

\* 'features': {}
EmptyDict == [k \in {} |-> 0]

ShortVerdict ==
    [is_scientific |-> FALSE, confidence |-> 0, reason |-> "Texto muito curto",
     features |-> EmptyDict]

Verdict(t, is_scientific, conf) ==
    [is_scientific |-> is_scientific, confidence |-> conf,
     features |-> extract_features(t),
     reason |-> IF is_scientific THEN "Artigo Científico"
                ELSE "Não é artigo científico"]

\* Mutant: the length gate applied to the text as given, not trimmed.
classify_untrimmed(t) ==
    IF t = <<>> \/ Len(t) < MinTextLen THEN ShortVerdict
    ELSE LET conf == calculate_confidence_score(extract_features(t))
         IN  Verdict(t, conf >= Threshold, conf)

\* Mutant: the threshold taken as exclusive.
classify_exclusive(t) ==
    IF t = <<>> \/ Len(strip(t)) < MinTextLen THEN ShortVerdict
    ELSE LET conf == calculate_confidence_score(extract_features(t))
         IN  Verdict(t, conf > Threshold, conf)

classify(t) ==
    IF t = <<>> \/ Len(strip(t)) < MinTextLen THEN ShortVerdict
    ELSE LET conf == calculate_confidence_score(extract_features(t))
         IN  Verdict(t, conf >= Threshold, conf)

(***************************************************************************)
(* segmentation.py                                                         *)
(*                                                                         *)
(* A file is a record: its path, whether it exists, whether it opens as a  *)
(* PDF or an image, whether its text can be read, and the text it holds.   *)
(* The page images and the counts derived from them are left out.          *)
(***************************************************************************)
supported_formats == {".pdf", ".jpg", ".jpeg", ".png"}

\* os.path.splitext(file_path)[1].lower() for the paths of the model
ExtensionOf ==
    [p \in {"a.pdf", "a.PDF", "a.jpg", "a.jpeg", "a.png", "a.txt"} |->
        CASE p \in {"a.pdf", "a.PDF"} -> ".pdf"
          [] p = "a.jpg" -> ".jpg"
          [] p = "a.jpeg" -> ".jpeg"
          [] p = "a.png" -> ".png"
          [] OTHER -> ".txt"]

NoException == [class |-> "", message |-> ""]

\* DocumentSegmentation.load_document with _load_pdf and _load_image: the
\* exception it raises, NoException when it returns the images.
load_document(doc) ==
    LET ext == ExtensionOf[doc.file_path]
    IN  IF ~doc.exists
        THEN [class |-> "FileNotFoundError", message |-> "Arquivo não encontrado"]
        ELSE IF ext \notin supported_formats
        THEN [class |-> "ValueError", message |-> "Formato não suportado"]
        ELSE IF ~doc.loads
        THEN [class |-> "RuntimeError",
              message |-> IF ext = ".pdf" THEN "Erro ao carregar PDF"
                          ELSE "Erro ao carregar imagem"]
        ELSE NoException

\* DocumentSegmentation.extract_text_from_pdf
extract_text_from_pdf(doc) == IF doc.extracts THEN doc.content ELSE <<>>

\* Mutant: the text of an image is read as well.
segmenter_process_document_ocr(doc) ==
    [raised |-> load_document(doc), text |-> extract_text_from_pdf(doc),
     num_image_regions |-> 0]

\* DocumentSegmentation.process_document: the exception raised, or the
\* dictionary returned
segmenter_process_document(doc) ==
    LET ext == ExtensionOf[doc.file_path]
    IN  [raised |-> load_document(doc),
         text |-> IF ext = ".pdf" THEN extract_text_from_pdf(doc) ELSE <<>>,
         num_image_regions |-> 0]

(***************************************************************************)
(* compliance_validator.py: create_analytical_summary.  The summary text   *)
(* is left out.                                                            *)
(***************************************************************************)
create_analytical_summary(a, c) ==
    [is_compliant |-> c.is_compliant, compliance_details |-> c,
     analysis_summary |-> [word_count |-> a.word_count,
                           paragraph_count |-> a.paragraph_count,
                           avg_words_per_paragraph |-> 0],
     status |-> IF c.is_compliant THEN "CONFORME" ELSE "NÃO CONFORME"]

(***************************************************************************)
(* main.py: ScientificDocumentProcessor.process_document                   *)
(*                                                                         *)
(* results is a function from the keys present to their values.  An error  *)
(* is a record of the fixed part of the message and its detail.            *)
(***************************************************************************)
NoError == [kind |-> "None", detail |-> ""]
NonScientificError ==
    [kind |-> "Não é um documento válido (Artigo Científico)", detail |-> ""]

\* results = {'success': False, 'file_path': file_path, 'error': None}
InitialResults(file_path) ==
    [success |-> FALSE, file_path |-> file_path, error |-> NoError]

\* results[key] = value
SetItem(res, key, value) ==
    [k \in DOMAIN res \cup {key} |-> IF k = key THEN value ELSE res[k]]

\* Mutant: no early return for a text that is not scientific.
classification_step_through(res, c) ==
    [results |-> SetItem(res, "classification",
                         [is_scientific |-> c.is_scientific,
                          confidence |-> c.confidence, features |-> c.features]),
     pc |-> "analysis"]

\* The classification stage after classify has returned c: the dictionary and
\* where process_document goes on.
classification_step(res, c) ==
    LET r == SetItem(res, "classification",
                     [is_scientific |-> c.is_scientific,
                      confidence |-> c.confidence, features |-> c.features])
    IN  IF ~c.is_scientific
        THEN [results |-> SetItem(r, "error", NonScientificError),
              pc |-> "returned"]
        ELSE [results |-> r, pc |-> "analysis"]

\* The classes an except Exception clause catches
ExceptionClasses == {"FileNotFoundError", "ValueError", "RuntimeError"}

(***************************************************************************)
(* process_files.py: process_batch                                         *)
(*                                                                         *)
(* A document of a batch is a record: its file name, the dictionary        *)
(* process_document returns for it, and whether save_results can write its *)
(* output file.                                                            *)
(***************************************************************************)
\* dict.get(key, default)
Get(res, key, default) == IF key \in DOMAIN res THEN res[key] ELSE default

\* for idx, doc_path in enumerate(documents, 1): a document is left after i
\* of them
enumerate_next_but_last(docs, i) == i < Len(docs) - 1

enumerate_next(docs, i) == i < Len(docs)

\* The counters after the result of one document
count_result(c, result) ==
    IF result.success
    THEN IF result.summary.is_compliant
         THEN [c EXCEPT !.success = @ + 1, !.compliant = @ + 1]
         ELSE [c EXCEPT !.success = @ + 1, !.non_compliant = @ + 1]
    ELSE [c EXCEPT !.errors = @ + 1]

\* The entry appended to results_summary['results']
summary_entry(doc, result) ==
    [file |-> doc.file,
     success |-> result.success,
     is_scientific |->
         Get(Get(result, "classification", <<>>), "is_scientific", FALSE),
     is_compliant |-> Get(Get(result, "summary", <<>>), "is_compliant", FALSE),
     word_count |-> Get(Get(result, "analysis", <<>>), "word_count", 0),
     paragraph_count |->
         Get(Get(result, "analysis", <<>>), "paragraph_count", 0),
     error |-> Get(result, "error", NoError)]

(***************************************************************************)
(* Initial states: one per component, the other components idle.           *)
(***************************************************************************)
IdleCompliance == analysis = [word_count |-> 0, paragraph_count |-> 0]
                  /\ compliance = NoCompliance
IdleScore == features = NoFeatures /\ confidence = 0
IdleText == text = <<>>
IdleSegment == paragraphs = <<>> /\ body_text = <<>> /\ resegmented = <<>>
IdleTokens == words = <<>>
IdleFrequency == /\ stop_words = SupplementaryStopWords /\ top_n = DefaultTopN
                 /\ remove_stop_words = TRUE /\ top_words = <<>>

IdleClassify == classification = ShortVerdict

\* analyze_text has not run: a result with nothing in it
NoAnalysis ==
    [paragraphs |-> <<>>, paragraph_count |-> 0, body_text |-> <<>>,
     word_count |-> 0, top_words |-> <<>>]

\* no file
NoDocument ==
    [file_path |-> "", exists |-> FALSE, loads |-> FALSE, extracts |-> FALSE,
     content |-> <<>>]

IdleAnalyze == analysis_result = NoAnalysis
IdlePipeline == /\ document = NoDocument /\ results = <<>> /\ stages = <<>>
                /\ exception = NoException
IdleCounters == success = 0 /\ compliant = 0 /\ non_compliant = 0 /\ errors = 0
IdleBatch == /\ documents = <<>> /\ save_json = FALSE /\ idx = 0
             /\ IdleCounters /\ results_summary = <<>>
             /\ attempted = <<>> /\ summary_printed = FALSE
IdleLater == IdleAnalyze /\ IdlePipeline /\ IdleBatch

WordCounts == {0} \cup ((min_words - WordMargin)..(min_words + WordMargin))
ParagraphCounts == 0..(min_paragraphs + ParaMargin)

InitCompliance ==
    /\ pc = "compliance"
    /\ analysis \in [word_count : WordCounts, paragraph_count : ParagraphCounts]
    /\ compliance = NoCompliance
    /\ IdleScore /\ IdleText /\ IdleSegment /\ IdleTokens /\ IdleFrequency
    /\ IdleClassify /\ IdleLater

FeatureSets ==
    [keyword_count : 0..MaxKeywordCount, citation_count : 0..MaxCitationCount,
     has_doi : BOOLEAN, has_issn : BOOLEAN, section_count : 0..NumSections]

InitScore ==
    /\ pc = "score"
    /\ features \in FeatureSets
    /\ confidence = 0
    /\ IdleCompliance /\ IdleText /\ IdleSegment /\ IdleTokens /\ IdleFrequency
    /\ IdleClassify /\ IdleLater

\* All strings of 0..n elements of the set pieces, concatenated.
TextsOf(pieces, n) ==
    {Flatten(ps) : ps \in UNION {[1..k -> pieces] : k \in 0..n}}

\* The pieces a text to segment is made of: a word, two kinds of white space,
\* a three-word line and a two-word line.
SegPieces ==
    {<<"a">>, <<"\t">>, <<"\n">>, <<"b", " ", "a", " ", "b">>, <<"a", " ", "a">>}

InitSegment ==
    /\ pc = "segment"
    /\ text \in TextsOf(SegPieces, MaxSegPieces)
    /\ IdleSegment
    /\ IdleCompliance /\ IdleScore /\ IdleTokens /\ IdleFrequency
    /\ IdleClassify /\ IdleLater

\* The characters a text to tokenize is made of: letters of the pattern in
\* both cases, an accented capital, a letter outside the pattern, a digit, the
\* underscore, punctuation and white space.
TokChars ==
    {<<"a">>, <<"B">>, <<"É">>, <<"ñ">>, <<"1">>, <<"_">>, <<".">>, <<" ">>}

InitTokenize ==
    /\ pc = "tokenize"
    /\ text \in TextsOf(TokChars, MaxTokLen)
    /\ IdleTokens
    /\ IdleCompliance /\ IdleScore /\ IdleSegment /\ IdleFrequency
    /\ IdleClassify /\ IdleLater

\* The words a text to rank is made of, each followed by a space: two content
\* words (one also capitalised), a corpus stop word, a supplementary stop word
\* of two letters and a two-letter word that is no stop word.
FreqWords ==
    {<<"d", "a", "t", "a", " ">>, <<"D", "a", "t", "a", " ">>,
     <<"i", "o", "n", " ">>, <<"t", "h", "e", " ">>, <<"e", "t", " ">>,
     <<"a", "b", " ">>}

TopNs == {0, 1, 2, DefaultTopN}

InitFrequency ==
    /\ pc = "frequency"
    /\ text \in TextsOf(FreqWords, MaxFreqWords)
    /\ stop_words \in StopWordSets
    /\ top_n = DefaultTopN /\ remove_stop_words = TRUE /\ top_words = <<>>
    /\ IdleCompliance /\ IdleScore /\ IdleSegment /\ IdleTokens
    /\ IdleClassify /\ IdleLater

\* The fragments a text to classify is made of: a DOI, an ISSN, a section
\* keyword, a bracketed citation, an author-year citation and a plain word.
ClassifyFragments ==
    {<<"d", "o", "i", ":", " ", "1", "0", ".", "1", " ">>,
     <<"I", "S", "S", "N", ":", " ", "1", "2", "3", "4", "-", "5", "6", "7",
       "X", " ">>,
     <<"M", "e", "t", "h", "o", "d", "o", "l", "o", "g", "y", " ">>,
     <<"[", "1", "]", " ">>,
     <<"(", "S", "i", "l", "v", "a", ",", " ", "2", "0", "2", "0", ")", " ">>,
     <<"w", "o", "r", "d", " ">>}

\* n copies of the character c
Repeat(c, n) == [i \in 1..n |-> c]

\* White space of length n around the text
Padding(n) == [i \in 1..n |-> IF i % 2 = 1 THEN " " ELSE "\n"]

\* The trimmed lengths a text is filled up to: none, one below the gate, the gate
FillTargets == {0, MinTextLen - 1, MinTextLen}

ClassifyTexts ==
    {Padding(p) \o body \o Repeat("x", Max(0, n - Len(body))) \o Padding(p) :
        body \in TextsOf(ClassifyFragments, MaxFragments),
        n \in FillTargets, p \in {0, PadLen}}

InitClassify ==
    /\ pc = "classify"
    /\ text \in ClassifyTexts
    /\ classification = ShortVerdict
    /\ IdleCompliance /\ IdleScore /\ IdleSegment /\ IdleTokens /\ IdleFrequency
    /\ IdleLater

\* The pieces a text to analyse is made of: a three-word line with a stop word
\* and a two-letter word, a two-word line with a word next to a digit, a
\* newline and a space.
AnalyzePieces ==
    {<<"t", "h", "e", " ", "a", "b", " ", "d", "a", "t", "a">>,
     <<"i", "o", "n", " ", "x", "1">>, <<"\n">>, <<" ">>}

InitAnalyze ==
    /\ pc = "analyze"
    /\ text \in TextsOf(AnalyzePieces, MaxAnalyzePieces)
    /\ stop_words \in StopWordSets
    /\ top_n = DefaultTopN /\ remove_stop_words = TRUE /\ top_words = <<>>
    /\ IdleAnalyze
    /\ IdleCompliance /\ IdleScore /\ IdleSegment /\ IdleTokens /\ IdleClassify
    /\ IdlePipeline /\ IdleBatch

\* The pieces a text with a DOI is made of: the prefix in capitals, two kinds
\* of white space, the directory indicator, a digit and a letter.
DoiPieces ==
    {<<"D", "O", "I", ":">>, <<" ">>, <<"\n">>, <<"1", "0", ".">>, <<"1">>,
     <<"x">>}

\* The pieces a text with an ISSN is made of: the prefix in capitals, a colon,
\* a space, a number ending in X without hyphen, a number with hyphen and a
\* number that is one digit short.
IssnPieces ==
    {<<"I", "S", "S", "N">>, <<":">>, <<" ">>,
     <<"1", "2", "3", "4", "5", "6", "7", "X">>,
     <<"1", "2", "3", "4", "-", "5", "6", "7", "8">>,
     <<"1", "2", "3", "-", "5", "6", "7", "X">>}

IdentifierTexts ==
    TextsOf(DoiPieces, MaxFeaturePieces) \cup TextsOf(IssnPieces, MaxFeaturePieces)

InitFeatures ==
    /\ pc = "features"
    /\ text \in IdentifierTexts
    /\ IdleScore
    /\ IdleCompliance /\ IdleSegment /\ IdleTokens /\ IdleFrequency /\ IdleClassify
    /\ IdleLater

\* What a document's text is made of: a heading with a DOI, an ISSN and a
\* section keyword, and filler lines of four words, each followed by sep.
PipelineHeading ==
    <<"d", "o", "i", ":", " ", "1", "0", ".", "1", " ",
      "I", "S", "S", "N", ":", " ", "1", "2", "3", "4", "-", "5", "6", "7", "X",
      " ", "M", "e", "t", "h", "o", "d", "o", "l", "o", "g", "y", " ">>

FillerLine ==
    <<"t", "h", "e", " ", "a", "b", " ", "d", "a", "t", "a", " ", "i", "o", "n">>

Filler(sep, n) == Flatten([i \in 1..n |-> FillerLine \o sep])

\* The texts of the documents: none, the heading alone (too short), and
\* filler lines in one paragraph or in several, with and without the heading.
PipelineTexts ==
    {h \o Filler(sep, n) :
        h \in {<<>>, PipelineHeading}, sep \in {<<" ">>, <<"\n", "\n">>},
        n \in {0, MaxFillerLines}}

DocumentFiles ==
    [file_path : DOMAIN ExtensionOf, exists : BOOLEAN, loads : BOOLEAN,
     extracts : BOOLEAN, content : PipelineTexts]

InitPipeline ==
    /\ pc = "stage_segmentation"
    /\ document \in DocumentFiles
    /\ results = InitialResults(document.file_path)
    /\ stages = <<>>
    /\ exception = NoException
    /\ stop_words \in StopWordSets
    /\ top_n = DefaultTopN /\ remove_stop_words = TRUE /\ top_words = <<>>
    /\ IdleText /\ IdleClassify /\ IdleAnalyze /\ IdleCompliance
    /\ IdleScore /\ IdleSegment /\ IdleTokens /\ IdleBatch

\* The dictionary process_document returns for an accepted document whose
\* analysis is a
SuccessResult(file, a) ==
    LET c == check_compliance(a)
    IN  [success |-> TRUE, file_path |-> file, error |-> NoError,
         classification |-> [is_scientific |-> TRUE],
         analysis |-> a,
         summary |-> create_analytical_summary(a, c)]

\* The dictionaries process_document returns: accepted and compliant,
\* accepted and not compliant, rejected as not scientific, failed in the
\* first stage.
BatchResults(file) ==
    {SuccessResult(file, [word_count |-> min_words + 1,
                          paragraph_count |-> min_paragraphs + 1]),
     SuccessResult(file, [word_count |-> min_words,
                          paragraph_count |-> min_paragraphs + 1]),
     [success |-> FALSE, file_path |-> file, error |-> NonScientificError,
      classification |-> [is_scientific |-> FALSE]],
     [success |-> FALSE, file_path |-> file,
      error |-> [kind |-> "Erro", detail |-> "Erro ao carregar PDF"]]}

BatchDocuments ==
    [file : {"a.pdf"}, result : BatchResults("a.pdf"), saves : BOOLEAN]

InitBatch ==
    /\ pc = "batch"
    /\ documents \in UNION {[1..n -> BatchDocuments] : n \in 0..MaxBatch}
    /\ save_json \in BOOLEAN
    /\ idx = 0 /\ IdleCounters
    /\ results_summary = <<>> /\ attempted = <<>> /\ summary_printed = FALSE
    /\ IdleText /\ IdleClassify /\ IdleAnalyze /\ IdleCompliance
    /\ IdleScore /\ IdleSegment /\ IdleTokens /\ IdleFrequency /\ IdlePipeline

(***************************************************************************)
(* Actions                                                                 *)
(***************************************************************************)
CheckCompliance ==
    /\ pc = "compliance"
    /\ compliance' = check_compliance(analysis)
    /\ pc' = "compliance_done"
    /\ UNCHANGED <<analysis, scoreVars, text, segVars, tokVars, freqVars,
                   classVars, laterVars>>

CalculateConfidenceScore ==
    /\ pc = "score"
    /\ confidence' = calculate_confidence_score(features)
    /\ pc' = "score_done"
    /\ UNCHANGED <<complianceVars, features, text, segVars, tokVars, freqVars,
                   classVars, laterVars>>

DetectParagraphs ==
    /\ pc = "segment"
    /\ paragraphs' = detect_paragraphs(text)
    /\ pc' = "segmented"
    /\ UNCHANGED <<complianceVars, scoreVars, text, body_text, resegmented,
                   tokVars, freqVars, classVars, laterVars>>

ExtractBodyText ==
    /\ pc = "segmented"
    /\ body_text' = extract_body_text(paragraphs)
    /\ pc' = "joined"
    /\ UNCHANGED <<complianceVars, scoreVars, text, paragraphs, resegmented,
                   tokVars, freqVars, classVars, laterVars>>

Resegment ==
    /\ pc = "joined"
    /\ resegmented' = detect_paragraphs(body_text)
    /\ pc' = "resegmented"
    /\ UNCHANGED <<complianceVars, scoreVars, text, paragraphs, body_text,
                   tokVars, freqVars, classVars, laterVars>>

TokenizeWords ==
    /\ pc = "tokenize"
    /\ words' = tokenize_words(text)
    /\ pc' = "tokenized"
    /\ UNCHANGED <<complianceVars, scoreVars, text, segVars, freqVars, classVars,
                   laterVars>>

CalculateWordFrequency ==
    /\ pc = "frequency"
    /\ \E n \in TopNs, remove \in BOOLEAN :
           /\ top_n' = n
           /\ remove_stop_words' = remove
           /\ top_words' = calculate_word_frequency(stop_words, text, n, remove)
    /\ pc' = "frequency_done"
    /\ UNCHANGED <<complianceVars, scoreVars, text, segVars, tokVars, stop_words,
                   classVars, laterVars>>

Classify ==
    /\ pc = "classify"
    /\ classification' = classify(text)
    /\ pc' = "classified"
    /\ UNCHANGED <<complianceVars, scoreVars, text, segVars, tokVars, freqVars,
                   laterVars>>

AnalyzeText ==
    /\ pc = "analyze"
    /\ analysis_result' = analyze_text(stop_words, text)
    /\ pc' = "analyzed"
    /\ UNCHANGED <<complianceVars, scoreVars, text, segVars, tokVars, freqVars,
                   classVars, pipeVars, batchVars>>

ExtractFeatures ==
    /\ pc = "features"
    /\ features' = extract_features(text)
    /\ pc' = "features_done"
    /\ UNCHANGED <<complianceVars, confidence, text, segVars, tokVars, freqVars,
                   classVars, laterVars>>

\* process_document, stage 1: self.segmenter.process_document(file_path)
ProcessSegmentation ==
    /\ pc = "stage_segmentation"
    /\ stages' = Append(stages, "segmentation")
    /\ LET seg == segmenter_process_document(document)
       IN  IF seg.raised # NoException
           THEN /\ exception' = seg.raised
                /\ pc' = "except"
                /\ UNCHANGED <<text, results>>
           ELSE /\ text' = seg.text
                /\ results' = SetItem(results, "segmentation",
                                      [text |-> seg.text,
                                       num_image_regions |-> seg.num_image_regions])
                /\ pc' = "stage_classification"
                /\ UNCHANGED exception
    /\ UNCHANGED <<document, complianceVars, scoreVars, segVars, tokVars,
                   freqVars, classVars, analyzeVars, batchVars>>

\* process_document, stage 2: self.classifier.classify(extracted_text) and the
\* negative path
ProcessClassification ==
    /\ pc = "stage_classification"
    /\ stages' = Append(stages, "classification")
    /\ LET c == classify(text)
           step == classification_step(results, c)
       IN  /\ classification' = c
           /\ results' = step.results
           /\ pc' = IF step.pc = "returned" THEN "returned" ELSE "stage_analysis"
    /\ UNCHANGED <<document, exception, text, complianceVars, scoreVars, segVars,
                   tokVars, freqVars, analyzeVars, batchVars>>

\* process_document, stage 3: self.analyzer.analyze_text(extracted_text)
ProcessAnalysis ==
    /\ pc = "stage_analysis"
    /\ stages' = Append(stages, "analysis")
    /\ analysis_result' = analyze_text(stop_words, text)
    /\ results' = SetItem(results, "analysis", analysis_result')
    /\ pc' = "stage_compliance"
    /\ UNCHANGED <<document, exception, text, complianceVars, scoreVars, segVars,
                   tokVars, freqVars, classVars, batchVars>>

\* process_document, stage 4: check_compliance, create_analytical_summary and
\* the positive return
ProcessCompliance ==
    /\ pc = "stage_compliance"
    /\ stages' = Append(stages, "compliance")
    /\ compliance' = check_compliance(analysis_result)
    /\ results' = SetItem(SetItem(results, "summary",
                                  create_analytical_summary(analysis_result,
                                                            compliance')),
                          "success", TRUE)
    /\ pc' = "returned"
    /\ UNCHANGED <<document, exception, text, analysis, scoreVars, segVars,
                   tokVars, freqVars, classVars, analyzeVars, batchVars>>

\* process_document: except FileNotFoundError
ExceptFileNotFound ==
    /\ pc = "except"
    /\ exception.class = "FileNotFoundError"
    /\ results' = SetItem(results, "error",
                          [kind |-> "Arquivo não encontrado",
                           detail |-> results.file_path])
    /\ exception' = NoException
    /\ pc' = "returned"
    /\ UNCHANGED <<document, stages, text, complianceVars, scoreVars, segVars,
                   tokVars, freqVars, classVars, analyzeVars, batchVars>>

\* process_document: except Exception as e
ExceptException ==
    /\ pc = "except"
    /\ exception.class # "FileNotFoundError"
    /\ exception.class \in ExceptionClasses
    /\ results' = SetItem(results, "error",
                          [kind |-> "Erro", detail |-> exception.message])
    /\ exception' = NoException
    /\ pc' = "returned"
    /\ UNCHANGED <<document, stages, text, complianceVars, scoreVars, segVars,
                   tokVars, freqVars, classVars, analyzeVars, batchVars>>

NextPipeline ==
    \/ ProcessSegmentation \/ ProcessClassification \/ ProcessAnalysis
    \/ ProcessCompliance \/ ExceptFileNotFound \/ ExceptException

otherBatchVars ==
    <<complianceVars, scoreVars, text, segVars, tokVars, freqVars, classVars,
      analyzeVars, pipeVars>>

\* process_batch up to the loop: the early return for an empty list
BatchStart ==
    /\ pc = "batch"
    /\ pc' = IF documents = <<>> THEN "batch_done" ELSE "batch_loop"
    /\ UNCHANGED <<batchVars, otherBatchVars>>

\* One pass of the loop up to the call of save_results: process_document, the
\* counters, the entry of the summary
ProcessNext ==
    /\ pc = "batch_loop"
    /\ enumerate_next(documents, idx)
    /\ LET doc == documents[idx + 1]
           result == doc.result
           c == count_result([success |-> success, compliant |-> compliant,
                              non_compliant |-> non_compliant,
                              errors |-> errors], result)
       IN  /\ attempted' = Append(attempted, idx + 1)
           /\ success' = c.success /\ compliant' = c.compliant
           /\ non_compliant' = c.non_compliant /\ errors' = c.errors
           /\ results_summary' = Append(results_summary, summary_entry(doc, result))
           /\ IF save_json /\ result.success
              THEN pc' = "batch_save" /\ UNCHANGED idx
              ELSE pc' = "batch_loop" /\ idx' = idx + 1
    /\ UNCHANGED <<documents, save_json, summary_printed, otherBatchVars>>

\* processor.save_results(result, output_name): it writes the file or raises
SaveResults ==
    /\ pc = "batch_save"
    /\ IF documents[idx + 1].saves
       THEN pc' = "batch_loop" /\ idx' = idx + 1
       ELSE pc' = "batch_except" /\ UNCHANGED idx
    /\ UNCHANGED <<documents, save_json, counterVars, results_summary, attempted,
                   summary_printed, otherBatchVars>>

\* except Exception as e: errors += 1, and on to the next document
BatchExcept ==
    /\ pc = "batch_except"
    /\ errors' = errors + 1
    /\ idx' = idx + 1
    /\ pc' = "batch_loop"
    /\ UNCHANGED <<documents, save_json, success, compliant, non_compliant,
                   results_summary, attempted, summary_printed, otherBatchVars>>

\* The final summary, after the loop
FinalSummary ==
    /\ pc = "batch_loop"
    /\ ~enumerate_next(documents, idx)
    /\ summary_printed' = TRUE
    /\ pc' = "batch_done"
    /\ UNCHANGED <<documents, save_json, idx, counterVars, results_summary,
                   attempted, otherBatchVars>>

NextBatch ==
    BatchStart \/ ProcessNext \/ SaveResults \/ BatchExcept \/ FinalSummary

NextSegment == DetectParagraphs \/ ExtractBodyText \/ Resegment

SpecCompliance == InitCompliance /\ [][CheckCompliance]_vars
SpecScore == InitScore /\ [][CalculateConfidenceScore]_vars
SpecSegment == InitSegment /\ [][NextSegment]_vars
SpecTokenize == InitTokenize /\ [][TokenizeWords]_vars
SpecClassify == InitClassify /\ [][Classify]_vars
SpecFrequency == InitFrequency /\ [][CalculateWordFrequency]_vars
SpecAnalyze == InitAnalyze /\ [][AnalyzeText]_vars
SpecFeatures == InitFeatures /\ [][ExtractFeatures]_vars
SpecPipeline == InitPipeline /\ [][NextPipeline]_vars
SpecBatch == InitBatch /\ [][NextBatch]_vars
FairSpecBatch == SpecBatch /\ WF_vars(NextBatch)

(***************************************************************************)
(* C1: a text that is empty or whose trimmed length is below 100 gets the  *)
(* verdict is_scientific = false, confidence = 0 and an empty features     *)
(* record, whatever keywords, citations, DOI or ISSN it holds.             *)
(***************************************************************************)
LeadingWhitespace(t) ==
    Cardinality({i \in 1..Len(t) : \A j \in 1..i : t[j] \in Whitespace})
TrailingWhitespace(t) ==
    Cardinality({i \in 1..Len(t) : \A j \in i..Len(t) : t[j] \in Whitespace})
TrimmedLength(t) ==
    IF LeadingWhitespace(t) = Len(t) THEN 0
    ELSE Len(t) - LeadingWhitespace(t) - TrailingWhitespace(t)

\* C1: trimmed length below 100 gives (is_scientific FALSE, confidence 0,
\* features {}).
C1_ShortTextGate ==
    (pc = "classified" /\ TrimmedLength(text) < 100) =>
        /\ classification.is_scientific = FALSE
        /\ classification.confidence = 0
        /\ DOMAIN classification.features = {}

C1_Witness ==
    /\ pc = "classified"
    /\ Len(text) >= 100 /\ TrimmedLength(text) = 99
    /\ \E i \in 1..Len(text) : DoiAt(lower(text), i)
    /\ \E i \in 1..Len(text) : IssnAt(lower(text), i)
    /\ Contains(lower(text), <<"m", "e", "t", "h", "o", "d">>)
    /\ classification.is_scientific = FALSE
    /\ DOMAIN classification.features = {}

(***************************************************************************)
(* C2: in every verdict of classify, the short-text verdict included,      *)
(* is_scientific holds exactly when confidence >= 0.30 (300 thousandths):  *)
(* a confidence of exactly 0.30 is scientific.                             *)
(***************************************************************************)
C2_ThresholdInclusive ==
    pc = "classified" =>
        /\ classification.is_scientific <=> classification.confidence >= 300
        /\ classification.confidence = 300 => classification.is_scientific
        /\ classification.confidence < 300 => ~classification.is_scientific

C2_Witness ==
    /\ pc = "classified"
    /\ classification.confidence = 300
    /\ classification.is_scientific
    /\ classification.features.keyword_count = 4

(***************************************************************************)
(* C3: for every FeatureSet the score is the sum of the five capped        *)
(* contributions (15 per keyword up to 300, 20 per citation up to 300,     *)
(* 100 for a DOI, 100 for an ISSN, 40 per section up to 200); it lies in   *)
(* [0, 1000] and the final clamp to 1000 never changes the sum.            *)
(***************************************************************************)
KeywordPart(f) ==
    IF f.keyword_count * KeywordWeight >= KeywordCap
    THEN KeywordCap ELSE f.keyword_count * KeywordWeight
CitationPart(f) ==
    IF f.citation_count * CitationWeight >= CitationCap
    THEN CitationCap ELSE f.citation_count * CitationWeight
SectionPart(f) ==
    IF f.section_count * SectionWeight >= SectionCap
    THEN SectionCap ELSE f.section_count * SectionWeight
ExpectedSum(f) ==
    KeywordPart(f) + CitationPart(f) + SectionPart(f)
    + (IF f.has_doi THEN DoiBonus ELSE 0) + (IF f.has_issn THEN IssnBonus ELSE 0)

\* C3: the score is the sum of the capped parts, within [0, 1000], and the
\* clamp leaves it unchanged.
C3_ScoreIsCappedSum ==
    pc = "score_done" =>
        /\ confidence = ExpectedSum(features)
        /\ confidence >= 0
        /\ confidence <= ScoreMax
        /\ ExpectedSum(features) <= ScoreMax

C3_Witness ==
    /\ pc = "score_done"
    /\ features.keyword_count > 20
    /\ features.citation_count > 15
    /\ features.has_doi /\ features.has_issn
    /\ features.section_count = NumSections
    /\ confidence = ScoreMax

(***************************************************************************)
(* C4: is_compliant holds exactly when word_count > 2000 and               *)
(* paragraph_count > 5, both strict.                                       *)
(***************************************************************************)
C4_StrictThresholds ==
    pc = "compliance_done" =>
        /\ compliance.is_compliant <=>
              (analysis.word_count > 2000 /\ analysis.paragraph_count > 5)
        /\ (analysis.word_count = 2001 /\ analysis.paragraph_count = 6)
              => compliance.is_compliant
        /\ (analysis.word_count = 2000 /\ analysis.paragraph_count = 6)
              => ~compliance.is_compliant
        /\ (analysis.word_count = 2001 /\ analysis.paragraph_count = 5)
              => ~compliance.is_compliant

C4_Witness ==
    /\ pc = "compliance_done"
    /\ analysis.word_count = 2001 /\ analysis.paragraph_count = 6
    /\ compliance.is_compliant

(***************************************************************************)
(* C5: reasons is empty exactly when the verdict is compliant; otherwise   *)
(* it holds a word message exactly when word_count <= 2000, followed by a  *)
(* paragraph message exactly when paragraph_count <= 5.                    *)
(***************************************************************************)
IsWordMessage(r) == r.label = "Palavras"
IsParagraphMessage(r) == r.label = "Parágrafos"

\* C5: reasons is empty iff compliant; else the word message (iff
\* word_count <= 2000) comes before the paragraph message (iff
\* paragraph_count <= 5).
C5_ReasonsOrdered ==
    pc = "compliance_done" =>
        LET rs == compliance.reasons
            wfail == analysis.word_count <= 2000
            pfail == analysis.paragraph_count <= 5
        IN  /\ (rs = <<>>) <=> compliance.is_compliant
            /\ Len(rs) = (IF wfail THEN 1 ELSE 0) + (IF pfail THEN 1 ELSE 0)
            /\ wfail => /\ IsWordMessage(rs[1])
                        /\ rs[1].count = analysis.word_count
            /\ pfail => /\ IsParagraphMessage(rs[Len(rs)])
                        /\ rs[Len(rs)].count = analysis.paragraph_count
            /\ \A i, j \in 1..Len(rs) :
                   (IsParagraphMessage(rs[i]) /\ IsWordMessage(rs[j])) => j < i

C5_Witness ==
    /\ pc = "compliance_done"
    /\ Len(compliance.reasons) = 2
    /\ IsWordMessage(compliance.reasons[1])
    /\ IsParagraphMessage(compliance.reasons[2])

(***************************************************************************)
(* C6: detect_paragraphs splits the text at blank lines only (never at a   *)
(* single newline) and returns, in source order, exactly the blocks with   *)
(* at least three words, each with its white space collapsed to single     *)
(* spaces; empty or whitespace-only input yields no paragraph.             *)
(***************************************************************************)
RECURSIVE LinesOf(_)
\* The lines of s: the pieces between its newline characters.
LinesOf(s) ==
    LET n == RunEndNot(s, 1, {"\n"})
    IN  IF n > Len(s) THEN <<s>>
        ELSE <<SubSeq(s, 1, n - 1)>> \o LinesOf(SubSeq(s, n + 1, Len(s)))

IsBlankLine(l) == \A i \in 1..Len(l) : l[i] \in Whitespace

RECURSIVE BlocksOf(_, _)
\* The words of each maximal group of consecutive non-blank lines.
BlocksOf(ls, cur) ==
    IF ls = <<>> THEN <<cur>>
    ELSE IF IsBlankLine(Head(ls)) THEN <<cur>> \o BlocksOf(Tail(ls), <<>>)
    ELSE BlocksOf(Tail(ls), cur \o split(Head(ls)))

RECURSIVE SpacedWords(_)
SpacedWords(ws) ==
    IF Len(ws) = 1 THEN ws[1] ELSE ws[1] \o <<" ">> \o SpacedWords(Tail(ws))

RECURSIVE KeptBlocks(_)
KeptBlocks(bs) ==
    IF bs = <<>> THEN <<>>
    ELSE (IF Len(Head(bs)) >= 3 THEN <<SpacedWords(Head(bs))>> ELSE <<>>)
         \o KeptBlocks(Tail(bs))

ExpectedParagraphs(t) == KeptBlocks(BlocksOf(LinesOf(t), <<>>))

WellFormedParagraph(p) ==
    /\ p # <<>>
    /\ \A i \in 1..Len(p) : p[i] \notin (Whitespace \ {" "})
    /\ p[1] # " " /\ p[Len(p)] # " "
    /\ \A i \in 1..(Len(p) - 1) : ~(p[i] = " " /\ p[i + 1] = " ")
    /\ Cardinality({i \in 1..Len(p) : p[i] = " "}) >= 2

\* C6: the paragraphs are the blank-line separated blocks of at least three
\* words, in order, each well formed; blank input gives none.
C6_ParagraphsAreBlankLineBlocks ==
    pc \in {"segmented", "joined", "resegmented"} =>
        /\ paragraphs = ExpectedParagraphs(text)
        /\ \A k \in 1..Len(paragraphs) : WellFormedParagraph(paragraphs[k])
        /\ IsBlankLine(text) => paragraphs = <<>>

C6_Witness ==
    /\ pc = "segmented"
    /\ text = <<"b", " ", "a", " ", "b", "\n", "\n", "a", " ", "a", "\n", "a">>
    /\ paragraphs = << <<"b", " ", "a", " ", "b">>, <<"a", " ", "a", " ", "a">> >>

(***************************************************************************)
(* C7: joining the detected paragraphs with the blank-line separator and   *)
(* segmenting the result again yields the same paragraph sequence.         *)
(***************************************************************************)
C7_RoundTrip ==
    pc = "resegmented" => resegmented = paragraphs

C7_Witness ==
    /\ pc = "resegmented"
    /\ Len(paragraphs) >= 2
    /\ resegmented = paragraphs
    /\ body_text # text

(***************************************************************************)
(* C8: calculate_word_frequency returns at most top_n pairs (word, count), *)
(* count being the number of occurrences of word among the retained        *)
(* tokens, by descending count and, among equal counts, by first           *)
(* appearance; no word that ranks before a listed one is left out.         *)
(***************************************************************************)
RetainedTokens ==
    IF remove_stop_words
    THEN SelectSeq(tokenize_words(text), LAMBDA w : w \notin stop_words /\ Len(w) > 2)
    ELSE tokenize_words(text)

Occurrences(w, ws) == Cardinality({i \in 1..Len(ws) : ws[i] = w})
FirstAppearance(w, ws) ==
    CHOOSE i \in 1..Len(ws) : ws[i] = w /\ \A j \in 1..(i - 1) : ws[j] # w
\* w ranks before v: a higher count, or the same count and an earlier first
\* appearance.
RanksBefore(w, v, ws) ==
    \/ Occurrences(w, ws) > Occurrences(v, ws)
    \/ /\ Occurrences(w, ws) = Occurrences(v, ws)
       /\ FirstAppearance(w, ws) < FirstAppearance(v, ws)

\* C8: at most top_n pairs, exact counts, descending, ties by first
\* appearance, nothing that ranks before a listed word left out.
C8_TopWordsRanked ==
    pc = "frequency_done" =>
        LET ws == RetainedTokens
            distinct == {ws[i] : i \in 1..Len(ws)}
            listed == {top_words[k][1] : k \in 1..Len(top_words)}
        IN  /\ Len(top_words) <= top_n
            /\ Len(top_words) = Min(top_n, Cardinality(distinct))
            /\ \A k \in 1..Len(top_words) :
                   /\ top_words[k][1] \in distinct
                   /\ top_words[k][2] = Occurrences(top_words[k][1], ws)
                   /\ top_words[k][2] >= 1
            /\ \A k, m \in 1..Len(top_words) :
                   k < m => RanksBefore(top_words[k][1], top_words[m][1], ws)
            /\ \A w \in distinct \ listed, v \in listed : ~RanksBefore(w, v, ws)

C8_Witness ==
    /\ pc = "frequency_done"
    /\ ~remove_stop_words /\ top_n = 2
    /\ tokenize_words(text) =
           << <<"t", "h", "e">>, <<"i", "o", "n">>, <<"d", "a", "t", "a">>,
              <<"d", "a", "t", "a">> >>
    /\ top_words = << << <<"d", "a", "t", "a">>, 2 >>, << <<"t", "h", "e">>, 1 >> >>

(***************************************************************************)
(* C9 as stated: tokenize_words returns, in order, every maximal run of    *)
(* pattern letters of the lower-cased text, digits and the underscore      *)
(* acting as separators like punctuation.                                  *)
(***************************************************************************)
RECURSIVE LetterRuns(_, _)
\* The maximal runs of pattern letters of s from index i, as <<first, next>>.
LetterRuns(s, i) ==
    LET b == RunEndNot(s, i, TokenLetters)
        e == RunEnd(s, b, TokenLetters)
    IN  IF b > Len(s) THEN <<>> ELSE << <<b, e>> >> \o LetterRuns(s, e)

RunText(s, runs) == [k \in 1..Len(runs) |-> SubSeq(s, runs[k][1], runs[k][2] - 1)]

\* C9 as stated: the tokens are all the maximal letter runs of the
\* lower-cased text.
C9_EveryLetterRunIsToken ==
    pc = "tokenized" => words = RunText(lower(text), LetterRuns(lower(text), 1))

(***************************************************************************)
(* C9 as amended: tokenize_words returns, in order, the maximal runs of    *)
(* pattern letters of the lower-cased text that have no word character     *)
(* (digit, underscore, letter outside the pattern) next to them; such a    *)
(* neighbour suppresses the run instead of separating it.  No token holds  *)
(* a digit, a punctuation mark or a capital.                               *)
(***************************************************************************)
IsBoundedRun(s, r) ==
    /\ (r[1] = 1 \/ s[r[1] - 1] \notin WordChars)
    /\ (r[2] > Len(s) \/ s[r[2]] \notin WordChars)

\* C9 as amended: the tokens are the maximal letter runs of the lower-cased
\* text with no word character next to them.
C9_BoundedLetterRunsAreTokens ==
    pc = "tokenized" =>
        LET s == lower(text)
            runs == SelectSeq(LetterRuns(s, 1), LAMBDA r : IsBoundedRun(s, r))
        IN  /\ words = RunText(s, runs)
            /\ \A k \in 1..Len(words) :
                   /\ words[k] # <<>>
                   /\ \A i \in 1..Len(words[k]) :
                          words[k][i] \in LowerAZ \cup AccentedLower

C9_Witness ==
    /\ pc = "tokenized"
    /\ text = <<"a", "1", ".", "B">>
    /\ words = << <<"b">> >>

(***************************************************************************)
(* C10: with stop-word removal enabled no listed word is a stop word or    *)
(* has two letters or fewer; tokens of at most two letters are dropped     *)
(* whether or not they are stop words, and every other token that is no    *)
(* stop word is counted.                                                   *)
(***************************************************************************)
C10_StopWordsAndShortWordsDropped ==
    (pc = "frequency_done" /\ remove_stop_words) =>
        LET ws == tokenize_words(text)
            listed == {top_words[k][1] : k \in 1..Len(top_words)}
        IN  /\ \A w \in listed : w \notin stop_words /\ Len(w) > 2
            /\ top_n >= Len(ws) =>
                   \A i \in 1..Len(ws) :
                       (ws[i] \notin stop_words /\ Len(ws[i]) > 2) =>
                           \E k \in 1..Len(top_words) :
                               /\ top_words[k][1] = ws[i]
                               /\ top_words[k][2] = Occurrences(ws[i], ws)

C10_Witness ==
    /\ pc = "frequency_done"
    /\ remove_stop_words /\ top_n = DefaultTopN
    /\ <<"t", "h", "e">> \in stop_words
    /\ tokenize_words(text) =
           << <<"t", "h", "e">>, <<"e", "t">>, <<"a", "b">>, <<"d", "a", "t", "a">> >>
    /\ top_words = << << <<"d", "a", "t", "a">>, 1 >> >>

(***************************************************************************)
(* C11: in the result of analyze_text, body_text is the paragraphs joined  *)
(* by a blank line, paragraph_count is the number of paragraphs and        *)
(* word_count is the number of all tokens of body_text, stop words and     *)
(* tokens of two letters or fewer included, not of the raw text: a word    *)
(* that only occurs in a discarded block is not counted.                   *)
(***************************************************************************)
RECURSIVE OffsetOf(_, _)
\* Where paragraph k starts in the paragraphs joined by a two-character
\* separator, counted from 0.
OffsetOf(ps, k) == IF k = 1 THEN 0 ELSE OffsetOf(ps, k - 1) + Len(ps[k - 1]) + 2

IsJoinedByBlankLine(body, ps) ==
    LET n == Len(ps)
    IN  /\ Len(body) = IF n = 0 THEN 0 ELSE OffsetOf(ps, n) + Len(ps[n])
        /\ \A k \in 1..n :
               LET o == OffsetOf(ps, k)
               IN  /\ SubSeq(body, o + 1, o + Len(ps[k])) = ps[k]
                   /\ k < n => /\ body[o + Len(ps[k]) + 1] = "\n"
                               /\ body[o + Len(ps[k]) + 2] = "\n"

\* The tokens of t: the bounded letter runs of the lower-cased text
TokensOf(t) ==
    LET s == lower(t)
    IN  SelectSeq(LetterRuns(s, 1), LAMBDA r : IsBoundedRun(s, r))

\* C11: body_text, paragraph_count and word_count of analyze_text's result
\* are derived from its paragraphs, not from the raw text.
C11_CountsComeFromBody ==
    pc = "analyzed" =>
        LET r == analysis_result
        IN  /\ r.paragraphs = ExpectedParagraphs(text)
            /\ IsJoinedByBlankLine(r.body_text, r.paragraphs)
            /\ r.paragraph_count = Len(r.paragraphs)
            /\ r.word_count = Len(TokensOf(r.body_text))

\* A kept paragraph with a stop word and a two-letter word, and a discarded
\* block whose word "ion" occurs nowhere else.
C11_Witness ==
    /\ pc = "analyzed"
    /\ text = <<"t", "h", "e", " ", "a", "b", " ", "d", "a", "t", "a", "\n", "\n",
                "i", "o", "n", " ", "x", "1">>
    /\ analysis_result.paragraph_count = 1
    /\ analysis_result.word_count = 3
    /\ Len(TokensOf(text)) = 4

(***************************************************************************)
(* C12 as stated: has_doi is true exactly when the lower-cased text holds  *)
(* "doi:" followed by white space, then "10." and one or more digits.      *)
(***************************************************************************)
\* n characters of the set S from index i of s
GapAt(s, i, n, S) == \A j \in 0..(n - 1) : At(s, i + j) \in S

\* "doi:" at index i, n white-space characters, "10." and a digit
DoiWithGap(s, i, n) ==
    /\ At(s, i) = "d" /\ At(s, i + 1) = "o" /\ At(s, i + 2) = "i"
    /\ At(s, i + 3) = ":"
    /\ GapAt(s, i + 4, n, Whitespace)
    /\ At(s, i + 4 + n) = "1" /\ At(s, i + 5 + n) = "0"
    /\ At(s, i + 6 + n) = "."
    /\ At(s, i + 7 + n) \in Digits

\* C12 as stated: has_doi iff "doi:", at least one white-space character,
\* "10." and a digit occur in the lower-cased text.
C12_DoiNeedsWhitespace ==
    pc = "features_done" =>
        LET s == lower(text)
        IN  features.has_doi <=>
                \E i \in 1..Len(s), n \in 1..Len(s) : DoiWithGap(s, i, n)

(***************************************************************************)
(* C12 as amended: has_doi is true exactly when the lower-cased text holds *)
(* "doi:", then zero or more white-space characters, then "10." and one or *)
(* more digits; "doi:10.1" is detected.                                    *)
(***************************************************************************)
\* C12 as amended: has_doi iff "doi:", any number of white-space characters,
\* "10." and a digit occur in the lower-cased text.
C12_DoiWhitespaceOptional ==
    pc = "features_done" =>
        LET s == lower(text)
        IN  features.has_doi <=>
                \E i \in 1..Len(s), n \in 0..Len(s) : DoiWithGap(s, i, n)

C12_Witness ==
    /\ pc = "features_done"
    /\ text = <<"D", "O", "I", ":", "1", "0", ".", "1">>
    /\ features.has_doi

(***************************************************************************)
(* C13 as stated: has_issn is true exactly when the lower-cased text holds *)
(* "issn", then zero or more colon or white-space characters, four digits, *)
(* an optional hyphen, three digits and a final digit or x.                *)
(***************************************************************************)
\* "issn" at index i, n colon or white-space characters, then the number
IssnWithGap(s, i, n) ==
    /\ At(s, i) = "i" /\ At(s, i + 1) = "s" /\ At(s, i + 2) = "s"
    /\ At(s, i + 3) = "n"
    /\ GapAt(s, i + 4, n, Whitespace \cup {":"})
    /\ \E hyphen \in 0..1 :
           LET d == i + 4 + n
           IN  /\ GapAt(s, d, 4, Digits)
               /\ hyphen = 1 => At(s, d + 4) = "-"
               /\ GapAt(s, d + 4 + hyphen, 3, Digits)
               /\ At(s, d + 7 + hyphen) \in Digits \cup {"x"}

\* C13 as stated: has_issn iff "issn", any number of colon or white-space
\* characters and the number occur in the lower-cased text.
C13_IssnSeparatorOptional ==
    pc = "features_done" =>
        LET s == lower(text)
        IN  features.has_issn <=>
                \E i \in 1..Len(s), n \in 0..Len(s) : IssnWithGap(s, i, n)

(***************************************************************************)
(* C13 as amended: has_issn is true exactly when the lower-cased text      *)
(* holds "issn", then one or more colon or white-space characters, four    *)
(* digits, an optional hyphen, three digits and a final digit or x; with   *)
(* nothing between "issn" and the number there is no match.                *)
(***************************************************************************)
\* C13 as amended: has_issn iff "issn", at least one colon or white-space
\* character and the number occur in the lower-cased text.
C13_IssnSeparatorRequired ==
    pc = "features_done" =>
        LET s == lower(text)
        IN  features.has_issn <=>
                \E i \in 1..Len(s), n \in 1..Len(s) : IssnWithGap(s, i, n)

C13_Witness ==
    /\ pc = "features_done"
    /\ text = <<"I", "S", "S", "N", "1", "2", "3", "4", "-", "5", "6", "7", "8">>
    /\ ~features.has_issn

(***************************************************************************)
(* C14: process_document runs the stages in the fixed order segmentation,  *)
(* classification, analysis, compliance.  On a classification that is not  *)
(* scientific it returns success = false with the non-scientific error and *)
(* runs neither analysis nor compliance: the result has no 'analysis' and  *)
(* no 'summary'.  success = true is set only after all four stages.  No    *)
(* exception escapes: every exception raised is caught by a handler and    *)
(* process_document returns its dictionary.                                *)
(***************************************************************************)
PipelineOrder == <<"segmentation", "classification", "analysis", "compliance">>

IsPrefix(p, q) == Len(p) <= Len(q) /\ p = SubSeq(q, 1, Len(p))

HasKey(res, key) == key \in DOMAIN res

\* C14: stage order, short circuit on a non-scientific text, success only
\* after four stages, every exception handled.
C14_StagesInOrder ==
    /\ IsPrefix(stages, PipelineOrder)
    /\ (pc = "returned" /\ HasKey(results, "classification")
            /\ ~results.classification.is_scientific) =>
           /\ ~results.success
           /\ results.error = NonScientificError
           /\ stages = SubSeq(PipelineOrder, 1, 2)
           /\ ~HasKey(results, "analysis") /\ ~HasKey(results, "summary")
    /\ results.success =>
           /\ pc = "returned" /\ stages = PipelineOrder
           /\ results.classification.is_scientific
           /\ HasKey(results, "analysis") /\ HasKey(results, "summary")
           /\ results.error = NoError
    /\ (pc = "returned" /\ ~results.success) => results.error # NoError
    /\ pc = "except" => exception.class \in ExceptionClasses
    /\ pc \in {"stage_segmentation", "stage_classification", "stage_analysis",
              "stage_compliance", "except", "returned"}
    /\ pc = "returned" => exception = NoException

\* A text long enough to be scored that is not scientific: the short circuit
\* after the second stage.
C14_Witness ==
    /\ pc = "returned"
    /\ Len(strip(text)) >= MinTextLen
    /\ ~results.classification.is_scientific
    /\ results.error = NonScientificError
    /\ stages = <<"segmentation", "classification">>

(***************************************************************************)
(* C15: a failure on one document never aborts the batch.  Every document  *)
(* of a batch is handed to process_document exactly once, in list order;   *)
(* the loop always reaches the final summary; the entry recorded for a     *)
(* document depends on that document alone.                                *)
(***************************************************************************)
\* The documents handed over so far are the first ones of the list, in order,
\* and each has its own entry.
C15_Isolated ==
    /\ attempted = [i \in 1..Len(attempted) |-> i]
    /\ Len(attempted) =
           IF pc \in {"batch_save", "batch_except"} THEN idx + 1 ELSE idx
    /\ Len(attempted) <= Len(documents)
    /\ Len(results_summary) = Len(attempted)
    /\ \A k \in 1..Len(results_summary) :
           LET entry == results_summary[k]
               own == documents[k].result
           IN  /\ entry.file = documents[k].file
               /\ entry.success = own.success
               /\ entry.error = own.error
               /\ entry.is_compliant = (own.success /\ own.summary.is_compliant)
               /\ \A j \in 1..Len(results_summary) :
                      documents[j] = documents[k] => results_summary[j] = entry
    /\ (pc = "batch_done" /\ documents # <<>>) =>
           summary_printed /\ Len(attempted) = Len(documents)

\* C15: every batch goes through all its documents in order, whatever fails,
\* and ends with the final summary.
C15_BatchIsolation ==
    /\ []C15_Isolated
    /\ <>(pc = "batch_done" /\ (documents # <<>> => summary_printed))

\* A batch whose first document is accepted and cannot be saved, whose second
\* document is rejected and whose third is accepted, at the final summary.
C15_Witness ==
    /\ pc = "batch_done" /\ summary_printed /\ save_json
    /\ Len(documents) = 3
    /\ documents[1].result.success /\ ~documents[1].saves
    /\ ~documents[2].result.success
    /\ documents[3].result.success /\ documents[3].saves
    /\ attempted = <<1, 2, 3>>
    /\ Len(results_summary) = 3

(***************************************************************************)
(* C16: after n documents, for every mix of successes, error results and   *)
(* exceptions, an exception raised while saving a successful result        *)
(* included: success + errors = n, compliant + non_compliant = success,    *)
(* and the results list has one entry per document.                        *)
(***************************************************************************)
\* C16: between two documents and at the end the counters add up to the
\* number of documents dealt with.
C16_CountersAddUp ==
    pc \in {"batch_loop", "batch_done"} =>
        /\ success + errors = idx
        /\ compliant + non_compliant = success
        /\ Len(results_summary) = idx

(***************************************************************************)
(* C17 as stated: for every supported document that is no PDF (.jpg,       *)
(* .jpeg, .png) segmentation yields the empty text, classify takes the     *)
(* short path and process_document ends with success = false and the       *)
(* non-scientific error, never reaching analysis or compliance; a PDF      *)
(* whose text cannot be read is treated as empty text and ends the same    *)
(* way.                                                                    *)
(***************************************************************************)
IsImage(doc) == ExtensionOf[doc.file_path] \in supported_formats \ {".pdf"}
IsPdf(doc) == ExtensionOf[doc.file_path] = ".pdf"

RejectedAsNonScientific ==
    /\ text = <<>>
    /\ classification = ShortVerdict
    /\ ~results.success
    /\ results.error = NonScientificError
    /\ stages = <<"segmentation", "classification">>
    /\ ~HasKey(results, "analysis") /\ ~HasKey(results, "summary")

\* C17 as stated: every existing image file, and every PDF whose text cannot
\* be read, ends with the non-scientific error.
C17_ImagesEndNonScientific ==
    pc = "returned" =>
        /\ (IsImage(document) /\ document.exists) => RejectedAsNonScientific
        /\ (IsPdf(document) /\ document.exists /\ document.loads
                /\ ~document.extracts) => RejectedAsNonScientific

(***************************************************************************)
(* C17 as amended: an image is never accepted and never reaches analysis   *)
(* or compliance.  An image that exists and opens yields the empty text    *)
(* and ends with success = false and the non-scientific error; an image    *)
(* that exists and does not open ends in the first stage with success =    *)
(* false and the error of the loader instead.  A PDF that opens and whose  *)
(* text cannot be read is treated as empty text and ends with the          *)
(* non-scientific error.                                                   *)
(***************************************************************************)
\* C17 as amended: images are never accepted; those that open, and PDFs
\* whose text cannot be read, end with the non-scientific error.
C17_LoadedImagesEndNonScientific ==
    /\ IsImage(document) =>
           /\ ~results.success
           /\ IsPrefix(stages, <<"segmentation", "classification">>)
           /\ ~HasKey(results, "analysis") /\ ~HasKey(results, "summary")
    /\ pc = "returned" =>
           /\ (IsImage(document) /\ document.exists /\ document.loads) =>
                  RejectedAsNonScientific
           /\ (IsImage(document) /\ document.exists /\ ~document.loads) =>
                  /\ results.error =
                         [kind |-> "Erro", detail |-> "Erro ao carregar imagem"]
                  /\ stages = <<"segmentation">>
           /\ (IsPdf(document) /\ document.exists /\ document.loads
                   /\ ~document.extracts) => RejectedAsNonScientific

\* An image of a scientific text, rejected with the non-scientific error
C17_Witness ==
    /\ pc = "returned"
    /\ document.file_path = "a.png" /\ document.exists /\ document.loads
    /\ classify(document.content).is_scientific
    /\ RejectedAsNonScientific

=============================================================================
